---- MODULE Spec2Model ----
(***************************************************************************)
(* A model of MPD's playlist plugin registry (src/PlaylistRegistry.cxx):   *)
(* the plugin table with its enabled flags, the start-up and shut-down of  *)
(* the plugins, and the resolution of a URI, a stream or a local path to   *)
(* the plugin that opens it.                                               *)
(*                                                                         *)
(* C strings are sequences of one-character strings.  A pointer is a       *)
(* sequence of length at most one: NULL is <<>>, Ptr(x) points to x.       *)
(***************************************************************************)
EXTENDS Integers, Sequences, FiniteSets, TLC

\* ------------------------------------------------------------------ bounds

\* number of entries of playlist_plugins[] before the terminating NULL
NumPlugins == 2

\* greatest number of "playlist_plugin" blocks in the configuration
MaxBlocks == 3

\* ---------------------------------------------------------------- pointers

NULL == <<>>

Ptr(x) == <<x>>

Deref(p) == p[1]

PluginIndex == 1..NumPlugins

\* ------------------------------------------------------------ the registry

\* names of the entries of playlist_plugins[], in the order of the table
PluginNames == <<"extm3u", "m3u", "xspf", "pls", "asx", "rss", "cue", "embcue">>

PluginName(i) == PluginNames[i]

\* the values the model draws a plugin's schemes, suffixes and mime_types from
SchemeSets == {NULL, Ptr({<<"a">>})}

SuffixSets == {NULL, Ptr({<<"x">>})}

MimeSets == {NULL, Ptr({<<"m">>})}

\* plugins that open by URI: playlist_list_open_uri reads only open_uri,
\* schemes and suffixes of a plugin
UriPlugins ==
    [open_uri : BOOLEAN, open_stream : {FALSE},
     schemes : SchemeSets, suffixes : SuffixSets, mime_types : {NULL}]

\* plugins that open by stream: playlist_list_open_stream and
\* playlist_list_open_path read only open_stream, suffixes and mime_types
StreamPlugins ==
    [open_uri : {FALSE}, open_stream : BOOLEAN,
     schemes : {NULL}, suffixes : SuffixSets, mime_types : MimeSets]

Registries == [PluginIndex -> UriPlugins] \cup [PluginIndex -> StreamPlugins]

\* the registry the start-up and shut-down are checked with
DefaultRegistry ==
    [i \in PluginIndex |->
        [open_uri |-> FALSE, open_stream |-> TRUE, schemes |-> NULL,
         suffixes |-> Ptr({<<"x">>}), mime_types |-> Ptr({<<"m">>})]]

\* ------------------------------------------------------- the configuration

\* a "playlist_plugin" block: its "name" and "enabled" values, NULL if absent
BlockNames == {NULL, Ptr("nosuch")} \cup {Ptr(PluginName(i)) : i \in PluginIndex}

Blocks == [name : BlockNames, enabled : {NULL, Ptr(TRUE), Ptr(FALSE)}]

RECURSIVE SeqsUpTo(_, _)
SeqsUpTo(S, n) ==
    IF n = 0 THEN {<<>>}
    ELSE LET shorter == SeqsUpTo(S, n - 1)
         IN shorter \cup {Append(s, x) : s \in {t \in shorter : Len(t) = n - 1}, x \in S}

Configs == SeqsUpTo(Blocks, MaxBlocks)

VARIABLES
    playlist_plugins,          \* the plugin table
    playlist_plugins_enabled,  \* which plugins have been initialized successfully
    config,                    \* the "playlist_plugin" blocks of mpd.conf, in order
    phase,                     \* "start", "running", "finished" or "fatal"
    init_calls,                \* per plugin, the calls of playlist_plugin_init
    finish_calls,              \* per plugin, the number of playlist_plugin_finish calls
    op,                        \* the resolution call that has just returned, or "idle"
    args,                      \* its arguments
    tried,                     \* playlist_list_open_uri's tried[] at its return
    trace,                     \* the calls it made to plugins and to the stream
    playlist,                  \* the provider it returned, or NULL
    supported,                 \* the return value of playlist_suffix_supported
    is,                        \* the input stream it worked on
    is_r,                      \* what playlist_list_open_path stored in *is_r
    doc,                       \* the JSON document that soundcloud_open_uri fetches
    pc,                        \* where soundcloud_open_uri stands
    cursor,                       \* the next decoder event of the document
    data,                      \* struct parse_data
    stat,                      \* the last yajl_status
    ret,                       \* what soundcloud_parse_json returned
    provider,                  \* what soundcloud_open_uri returned
    mutex,                     \* the caller's mutex
    input_stream               \* the stream of soundcloud_parse_json

vars == <<playlist_plugins, playlist_plugins_enabled, config, phase, init_calls,
          finish_calls, op, args, tried, trace, playlist, supported, is, is_r,
          doc, pc, cursor, data, stat, ret, provider, mutex, input_stream>>

registryVars == <<playlist_plugins, config>>

lifeVars == <<playlist_plugins_enabled, phase, init_calls, finish_calls>>

callVars == <<op, args, tried, trace, playlist, supported, is, is_r>>

soundcloudVars == <<doc, pc, cursor, data, stat, ret, provider, mutex, input_stream>>

\* no stream: the value of is outside a call that works on one
NoStream == [open |-> FALSE, pos |-> 0, opened |-> 0, closed |-> 0]

\* ---------------------------------------------------------------- strings

Alpha == {"a", "b", "c", "m", "n", "p", "q", "x", "y"}

Digit == {"0", "1"}

\* the first index k >= i with s[k] = c, or 0
RECURSIVE strchr_from(_, _, _)
strchr_from(s, c, i) ==
    IF i > Len(s) THEN 0
    ELSE IF s[i] = c THEN i
    ELSE strchr_from(s, c, i + 1)

strchr(s, c) == strchr_from(s, c, 1)

\* the last index k <= i with s[k] = c, or 0
RECURSIVE strrchr_from(_, _, _)
strrchr_from(s, c, i) ==
    IF i = 0 THEN 0
    ELSE IF s[i] = c THEN i
    ELSE strrchr_from(s, c, i - 1)

strrchr(s, c) == strrchr_from(s, c, Len(s))

string_array_contains(haystack, needle) == needle \in haystack

\* the end of the scheme that starts s: the index of its ':', or 0
RECURSIVE scheme_end(_, _)
scheme_end(s, i) ==
    IF i > Len(s) THEN 0
    ELSE IF s[i] = ":" THEN i
    ELSE IF s[i] \in Alpha \cup Digit \cup {"+", "-", "."} THEN scheme_end(s, i + 1)
    ELSE 0

g_uri_parse_scheme(uri) ==
    IF Len(uri) = 0 \/ uri[1] \notin Alpha THEN NULL
    ELSE LET k == scheme_end(uri, 1)
         IN IF k = 0 THEN NULL ELSE Ptr(SubSeq(uri, 1, k - 1))

uri_get_suffix(uri) ==
    LET dot == strrchr(uri, ".")
    IN IF dot = 0 THEN NULL
       ELSE LET suffix == SubSeq(uri, dot + 1, Len(uri))
            IN IF strchr(suffix, "/") # 0 THEN NULL ELSE Ptr(suffix)

\* -------------------------------------------------- start-up and shut-down

GetBlockValue(param, default_value) ==
    IF param.enabled = NULL THEN default_value ELSE Deref(param.enabled)

\* the walk of playlist_plugin_config over the blocks from the k-th on
RECURSIVE playlist_plugin_config_from(_, _)
playlist_plugin_config_from(k, plugin_name) ==
    IF k > Len(config) THEN [fatal |-> FALSE, param |-> NULL]
    ELSE IF config[k].name = NULL THEN [fatal |-> TRUE, param |-> NULL]
    ELSE IF Deref(config[k].name) = plugin_name THEN [fatal |-> FALSE, param |-> Ptr(k)]
    ELSE playlist_plugin_config_from(k + 1, plugin_name)

playlist_plugin_config(plugin_name) == playlist_plugin_config_from(1, plugin_name)

\* DisabledInConf reading "enabled" with the default false
DisabledInConf_DefaultFalse(param) ==
    param # NULL /\ ~GetBlockValue(config[Deref(param)], FALSE)

\* "the plugin is disabled in mpd.conf"
DisabledInConf(param) ==
    param # NULL /\ ~GetBlockValue(config[Deref(param)], TRUE)

\* the loop of playlist_list_global_init from plugin i on; init_result[i] is
\* what playlist_plugin_init returns for plugin i
RECURSIVE global_init_from(_, _, _, _)
global_init_from(i, init_result, enabled, calls) ==
    IF i > NumPlugins THEN [fatal |-> FALSE, enabled |-> enabled, calls |-> calls]
    ELSE LET found == playlist_plugin_config(PluginName(i))
         IN IF found.fatal
            THEN [fatal |-> TRUE, enabled |-> enabled, calls |-> calls]
            ELSE IF DisabledInConf(found.param)
            THEN global_init_from(i + 1, init_result, enabled, calls)
            ELSE global_init_from(
                    i + 1, init_result,
                    [enabled EXCEPT ![i] = init_result[i]],
                    [calls EXCEPT ![i] =
                        Append(@, [param |-> found.param, result |-> init_result[i]])])

playlist_list_global_init ==
    /\ phase = "start"
    /\ \E init_result \in [PluginIndex -> BOOLEAN] :
          LET done == global_init_from(1, init_result, playlist_plugins_enabled,
                                       init_calls)
          IN /\ phase' = IF done.fatal THEN "fatal" ELSE "running"
             /\ playlist_plugins_enabled' = done.enabled
             /\ init_calls' = done.calls
    /\ UNCHANGED <<soundcloudVars, registryVars, finish_calls, callVars>>

\* playlist_plugins_for_each_enabled taken for playlist_plugins_for_each,
\* which visits every plugin of the table
playlist_plugins_for_each == PluginIndex

\* the plugins that playlist_plugins_for_each_enabled visits
playlist_plugins_for_each_enabled == {i \in PluginIndex : playlist_plugins_enabled[i]}

playlist_list_global_finish ==
    /\ phase = "running"
    /\ op = "idle"
    /\ phase' = "finished"
    /\ finish_calls' =
          [i \in PluginIndex |->
              IF i \in playlist_plugins_for_each_enabled THEN finish_calls[i] + 1
              ELSE finish_calls[i]]
    /\ UNCHANGED <<soundcloudVars, registryVars, playlist_plugins_enabled, init_calls, callVars>>

\* ------------------------------------------------------- the resolution

\* the URIs, paths, MIME types and suffixes the calls are made with
SchemeParts == {<<>>, <<"a", ":">>, <<"b", ":">>}

PathParts == {<<"p">>, <<"p", ".", "x">>, <<"p", ".", "y">>, <<"p", ".", "x", "/", "q">>}

Uris == {s \o p : s \in SchemeParts, p \in PathParts}

Mimes == {<<"m">>, <<"n">>, <<"m", ";", "c">>, <<";", "c">>}

Suffixes == {<<"x">>, <<"y">>, <<>>}

\* one call to a plugin or to the stream
Event(ev, plugin, pass, pos) == [ev |-> ev, plugin |-> plugin, pass |-> pass, pos |-> pos]

\* SchemeMatches without its test of the enabled flag
SchemeMatches_IgnoresEnabled(i, scheme) ==
    /\ playlist_plugins[i].open_uri
    /\ playlist_plugins[i].schemes # NULL
    /\ string_array_contains(Deref(playlist_plugins[i].schemes), scheme)

\* the test of the loop of playlist_list_open_uri_scheme
SchemeMatches(i, scheme) ==
    /\ playlist_plugins_enabled[i]
    /\ playlist_plugins[i].open_uri
    /\ playlist_plugins[i].schemes # NULL
    /\ string_array_contains(Deref(playlist_plugins[i].schemes), scheme)

\* the loop of playlist_list_open_uri_scheme from plugin i on; opens is the
\* set of plugins whose open_uri yields a provider for this URI
RECURSIVE open_uri_scheme_from(_, _, _, _, _)
open_uri_scheme_from(i, scheme, opens, tr, log) ==
    IF i > NumPlugins THEN [playlist |-> NULL, tried |-> tr, trace |-> log]
    ELSE IF SchemeMatches(i, scheme)
    THEN LET log2 == Append(log, Event("open_uri", i, "scheme", 0))
         IN IF i \in opens
            THEN [playlist |-> Ptr(i), tried |-> tr, trace |-> log2]
            ELSE open_uri_scheme_from(i + 1, scheme, opens,
                                      [tr EXCEPT ![i] = TRUE], log2)
    ELSE open_uri_scheme_from(i + 1, scheme, opens, tr, log)

playlist_list_open_uri_scheme(uri, opens, tr, log) ==
    LET scheme == g_uri_parse_scheme(uri)
    IN IF scheme = NULL THEN [playlist |-> NULL, tried |-> tr, trace |-> log]
       ELSE open_uri_scheme_from(1, Deref(scheme), opens, tr, log)

\* UriSuffixMatches testing plugin->schemes where it should test plugin->suffixes
UriSuffixMatches_TestsSchemes(i, suffix, tr) ==
    /\ playlist_plugins_enabled[i]
    /\ ~tr[i]
    /\ playlist_plugins[i].open_uri
    /\ playlist_plugins[i].schemes # NULL
    /\ playlist_plugins[i].suffixes # NULL
    /\ string_array_contains(Deref(playlist_plugins[i].suffixes), suffix)

\* UriSuffixMatches without its test of tried[i]
UriSuffixMatches_IgnoresTried(i, suffix, tr) ==
    /\ playlist_plugins_enabled[i]
    /\ playlist_plugins[i].open_uri
    /\ playlist_plugins[i].suffixes # NULL
    /\ string_array_contains(Deref(playlist_plugins[i].suffixes), suffix)

\* the test of the loop of playlist_list_open_uri_suffix
UriSuffixMatches(i, suffix, tr) ==
    /\ playlist_plugins_enabled[i]
    /\ ~tr[i]
    /\ playlist_plugins[i].open_uri
    /\ playlist_plugins[i].suffixes # NULL
    /\ string_array_contains(Deref(playlist_plugins[i].suffixes), suffix)

RECURSIVE open_uri_suffix_from(_, _, _, _, _)
open_uri_suffix_from(i, suffix, opens, tr, log) ==
    IF i > NumPlugins THEN [playlist |-> NULL, tried |-> tr, trace |-> log]
    ELSE IF UriSuffixMatches(i, suffix, tr)
    THEN LET log2 == Append(log, Event("open_uri", i, "suffix", 0))
         IN IF i \in opens
            THEN [playlist |-> Ptr(i), tried |-> tr, trace |-> log2]
            ELSE open_uri_suffix_from(i + 1, suffix, opens, tr, log2)
    ELSE open_uri_suffix_from(i + 1, suffix, opens, tr, log)

playlist_list_open_uri_suffix(uri, opens, tr, log) ==
    LET suffix == uri_get_suffix(uri)
    IN IF suffix = NULL THEN [playlist |-> NULL, tried |-> tr, trace |-> log]
       ELSE open_uri_suffix_from(1, Deref(suffix), opens, tr, log)

\* the plugins that can be asked to open a URI at all
UriCapable == {i \in PluginIndex : playlist_plugins_enabled[i] /\ playlist_plugins[i].open_uri}

\* the body of playlist_list_open_uri
open_uri(uri, opens) ==
    LET byScheme == playlist_list_open_uri_scheme(
                        uri, opens, [i \in PluginIndex |-> FALSE], <<>>)
    IN IF byScheme.playlist = NULL
       THEN playlist_list_open_uri_suffix(uri, opens, byScheme.tried, byScheme.trace)
       ELSE byScheme

playlist_list_open_uri ==
    /\ phase = "running"
    /\ op = "idle"
    /\ \E uri \in Uris, opens \in SUBSET UriCapable :
          LET done == open_uri(uri, opens)
          IN /\ op' = "open_uri"
             /\ args' = [uri |-> uri, opens |-> opens]
             /\ tried' = done.tried
             /\ trace' = done.trace
             /\ playlist' = done.playlist
    /\ UNCHANGED <<soundcloudVars, registryVars, lifeVars, supported, is, is_r>>

\* ---------------------------------------------------- resolving a stream

\* a stream as the caller hands it in: open, ready, at its start
FreshStream == [open |-> TRUE, pos |-> 0, opened |-> 1, closed |-> 0]

\* input_stream::Seek with its error ignored: a stream that cannot seek
\* stays where it is
Seek(stream, offset, seekable) ==
    IF seekable THEN [stream EXCEPT !.pos = offset] ELSE stream

\* a plugin's open_stream reads from the stream and so moves it forward
Probe(stream) == [stream EXCEPT !.pos = @ + 1]

\* the test of the loop of playlist_list_open_stream_mime2
MimeMatches(i, mime) ==
    /\ playlist_plugins_enabled[i]
    /\ playlist_plugins[i].open_stream
    /\ playlist_plugins[i].mime_types # NULL
    /\ string_array_contains(Deref(playlist_plugins[i].mime_types), mime)

\* the loop of playlist_list_open_stream_mime2 from plugin i on; env holds the
\* set opens of plugins whose open_stream yields a provider, and whether the
\* stream can seek
RECURSIVE open_stream_mime2_from(_, _, _, _, _)
open_stream_mime2_from(i, mime, env, stream, log) ==
    IF i > NumPlugins THEN [playlist |-> NULL, is |-> stream, trace |-> log]
    ELSE IF MimeMatches(i, mime)
    THEN LET rewound == Seek(stream, 0, env.seekable)
             log2 == log \o <<Event("seek", 0, "mime", 0),
                              Event("open_stream", i, "mime", rewound.pos)>>
             probed == Probe(rewound)
         IN IF i \in env.opens
            THEN [playlist |-> Ptr(i), is |-> probed, trace |-> log2]
            ELSE open_stream_mime2_from(i + 1, mime, env, probed, log2)
    ELSE open_stream_mime2_from(i + 1, mime, env, stream, log)

playlist_list_open_stream_mime2(mime, env, stream, log) ==
    open_stream_mime2_from(1, mime, env, stream, log)

\* ProbedMime without the cut at the semicolon
ProbedMime_WholeString(full_mime) == Ptr(full_mime)

\* the part of full_mime that playlist_list_open_stream_mime probes with, or
\* NULL when it probes nothing
ProbedMime(full_mime) ==
    LET semicolon == strchr(full_mime, ";")
    IN IF semicolon = 0 THEN Ptr(full_mime)
       ELSE IF semicolon = 1 THEN NULL
       ELSE Ptr(SubSeq(full_mime, 1, semicolon - 1))

playlist_list_open_stream_mime(full_mime, env, stream, log) ==
    LET mime == ProbedMime(full_mime)
    IN IF mime = NULL THEN [playlist |-> NULL, is |-> stream, trace |-> log]
       ELSE playlist_list_open_stream_mime2(Deref(mime), env, stream, log)

\* StreamSuffixMatches without the test of the enabled flag
StreamSuffixMatches_IgnoresEnabled(i, suffix) ==
    /\ playlist_plugins[i].open_stream
    /\ playlist_plugins[i].suffixes # NULL
    /\ string_array_contains(Deref(playlist_plugins[i].suffixes), suffix)

\* the test of the loop of playlist_list_open_stream_suffix
StreamSuffixMatches(i, suffix) ==
    /\ playlist_plugins_enabled[i]
    /\ playlist_plugins[i].open_stream
    /\ playlist_plugins[i].suffixes # NULL
    /\ string_array_contains(Deref(playlist_plugins[i].suffixes), suffix)

RECURSIVE open_stream_suffix_from(_, _, _, _, _)
open_stream_suffix_from(i, suffix, env, stream, log) ==
    IF i > NumPlugins THEN [playlist |-> NULL, is |-> stream, trace |-> log]
    ELSE IF StreamSuffixMatches(i, suffix)
    THEN LET rewound == Seek(stream, 0, env.seekable)
             log2 == log \o <<Event("seek", 0, "suffix", 0),
                              Event("open_stream", i, "suffix", rewound.pos)>>
             probed == Probe(rewound)
         IN IF i \in env.opens
            THEN [playlist |-> Ptr(i), is |-> probed, trace |-> log2]
            ELSE open_stream_suffix_from(i + 1, suffix, env, probed, log2)
    ELSE open_stream_suffix_from(i + 1, suffix, env, stream, log)

playlist_list_open_stream_suffix(suffix, env, stream, log) ==
    open_stream_suffix_from(1, suffix, env, stream, log)

\* the plugins that can be asked to open a stream at all
StreamCapable ==
    {i \in PluginIndex : playlist_plugins_enabled[i] /\ playlist_plugins[i].open_stream}

\* what a call that probes a stream is made with
StreamEnvs == [opens : SUBSET StreamCapable, seekable : BOOLEAN]

StreamUris == {NULL} \cup {Ptr(p) : p \in PathParts \ {<<"p", ".", "x", "/", "q">>}}

StreamMimes == {NULL} \cup {Ptr(m) : m \in Mimes}

\* open_stream matching the suffix before the MIME type
open_stream_SuffixFirst(mime, uri, env) ==
    LET none == [playlist |-> NULL, is |-> FreshStream, trace |-> <<>>]
        suffix == IF uri # NULL THEN uri_get_suffix(Deref(uri)) ELSE NULL
        bySuffix == IF suffix # NULL
                    THEN playlist_list_open_stream_suffix(
                             Deref(suffix), env, FreshStream, <<>>)
                    ELSE none
    IN IF bySuffix.playlist # NULL THEN bySuffix
       ELSE IF mime # NULL
       THEN playlist_list_open_stream_mime(Deref(mime), env, bySuffix.is, bySuffix.trace)
       ELSE bySuffix

\* the suffix loop leaving out the plugins that the log shows as probed
RECURSIVE open_stream_suffix_untried_from(_, _, _, _, _)
open_stream_suffix_untried_from(i, suffix, env, stream, log) ==
    IF i > NumPlugins THEN [playlist |-> NULL, is |-> stream, trace |-> log]
    ELSE IF /\ StreamSuffixMatches(i, suffix)
            /\ \A k \in 1..Len(log) : ~(log[k].ev = "open_stream" /\ log[k].plugin = i)
    THEN LET rewound == Seek(stream, 0, env.seekable)
             log2 == log \o <<Event("seek", 0, "suffix", 0),
                              Event("open_stream", i, "suffix", rewound.pos)>>
             probed == Probe(rewound)
         IN IF i \in env.opens
            THEN [playlist |-> Ptr(i), is |-> probed, trace |-> log2]
            ELSE open_stream_suffix_untried_from(i + 1, suffix, env, probed, log2)
    ELSE open_stream_suffix_untried_from(i + 1, suffix, env, stream, log)

\* open_stream keeping the plugins that failed by MIME type out of the
\* suffix pass
open_stream_SkipsTried(mime, uri, env) ==
    LET none == [playlist |-> NULL, is |-> FreshStream, trace |-> <<>>]
        byMime == IF mime # NULL
                  THEN playlist_list_open_stream_mime(Deref(mime), env, FreshStream, <<>>)
                  ELSE none
        suffix == IF uri # NULL THEN uri_get_suffix(Deref(uri)) ELSE NULL
    IN IF byMime.playlist # NULL THEN byMime
       ELSE IF suffix # NULL
       THEN open_stream_suffix_untried_from(1, Deref(suffix), env, byMime.is, byMime.trace)
       ELSE byMime

\* the body of playlist_list_open_stream; mime is what is->GetMimeType()
\* returns
open_stream(mime, uri, env) ==
    LET none == [playlist |-> NULL, is |-> FreshStream, trace |-> <<>>]
        byMime == IF mime # NULL
                  THEN playlist_list_open_stream_mime(Deref(mime), env, FreshStream, <<>>)
                  ELSE none
        suffix == IF uri # NULL THEN uri_get_suffix(Deref(uri)) ELSE NULL
    IN IF byMime.playlist # NULL THEN byMime
       ELSE IF suffix # NULL
       THEN playlist_list_open_stream_suffix(Deref(suffix), env, byMime.is, byMime.trace)
       ELSE byMime

playlist_list_open_stream ==
    /\ phase = "running"
    /\ op = "idle"
    /\ \E mime \in StreamMimes, uri \in StreamUris, env \in StreamEnvs :
          LET done == open_stream(mime, uri, env)
          IN /\ op' = "open_stream"
             /\ args' = [mime |-> mime, uri |-> uri, env |-> env]
             /\ trace' = done.trace
             /\ playlist' = done.playlist
             /\ is' = done.is
    /\ UNCHANGED <<soundcloudVars, registryVars, lifeVars, tried, supported, is_r>>

\* ------------------------------------------------------ suffixes and paths

\* SupportsSuffix without the test of the enabled flag
SupportsSuffix_IgnoresEnabled(i, suffix) ==
    /\ playlist_plugins[i].suffixes # NULL
    /\ string_array_contains(Deref(playlist_plugins[i].suffixes), suffix)

\* the test of the loop of playlist_suffix_supported
SupportsSuffix(i, suffix) ==
    /\ playlist_plugins_enabled[i]
    /\ playlist_plugins[i].suffixes # NULL
    /\ string_array_contains(Deref(playlist_plugins[i].suffixes), suffix)

\* the loop of playlist_suffix_supported from plugin i on: the plugin it
\* returns true for, or 0
RECURSIVE suffix_supported_from(_, _)
suffix_supported_from(i, suffix) ==
    IF i > NumPlugins THEN 0
    ELSE IF SupportsSuffix(i, suffix) THEN i
    ELSE suffix_supported_from(i + 1, suffix)

SupportedBy(suffix) == suffix_supported_from(1, suffix)

SupportTrace(suffix) ==
    IF SupportedBy(suffix) = 0 THEN <<>>
    ELSE <<Event("supported", SupportedBy(suffix), "suffix", 0)>>

playlist_suffix_supported ==
    /\ phase = "running"
    /\ op = "idle"
    /\ \E suffix \in Suffixes :
          /\ op' = "suffix_supported"
          /\ args' = [suffix |-> suffix]
          /\ supported' = (SupportedBy(suffix) # 0)
          /\ trace' = SupportTrace(suffix)
    /\ UNCHANGED <<soundcloudVars, registryVars, lifeVars, tried, playlist, is, is_r>>

\* open_path without the is->Close() of its failing branch
open_path_LeavesOpen(path_fs, env) ==
    LET suffix == uri_get_suffix(path_fs)
        unopened == [playlist |-> NULL, is |-> NoStream, is_r |-> NULL, trace |-> <<>>]
    IN IF suffix = NULL \/ SupportedBy(Deref(suffix)) = 0 THEN unopened
       ELSE IF ~env.open_ok
       THEN [unopened EXCEPT !.trace = SupportTrace(Deref(suffix))]
       ELSE LET found == playlist_list_open_stream_suffix(
                             Deref(suffix), env, FreshStream,
                             SupportTrace(Deref(suffix)))
            IN [playlist |-> found.playlist, is |-> found.is,
                is_r |-> IF found.playlist # NULL THEN Ptr("is") ELSE NULL,
                trace |-> found.trace]

\* the body of playlist_list_open_path; env.open_ok tells whether
\* input_stream::Open yields a stream
open_path(path_fs, env) ==
    LET suffix == uri_get_suffix(path_fs)
        unopened == [playlist |-> NULL, is |-> NoStream, is_r |-> NULL, trace |-> <<>>]
    IN IF suffix = NULL \/ SupportedBy(Deref(suffix)) = 0 THEN unopened
       ELSE IF ~env.open_ok
       THEN [unopened EXCEPT !.trace = SupportTrace(Deref(suffix))]
       ELSE LET found == playlist_list_open_stream_suffix(
                             Deref(suffix), env, FreshStream,
                             SupportTrace(Deref(suffix)))
            IN IF found.playlist # NULL
               THEN [playlist |-> found.playlist, is |-> found.is,
                     is_r |-> Ptr("is"), trace |-> found.trace]
               ELSE [playlist |-> NULL,
                     is |-> [found.is EXCEPT !.open = FALSE, !.closed = @ + 1],
                     is_r |-> NULL, trace |-> found.trace]

\* what playlist_list_open_path is made with: the file does not open, or it
\* opens as a stream that the plugins probe
PathEnvs ==
    {[open_ok |-> FALSE, opens |-> {}, seekable |-> FALSE]}
        \cup [open_ok : {TRUE}, opens : SUBSET StreamCapable, seekable : BOOLEAN]

playlist_list_open_path ==
    /\ phase = "running"
    /\ op = "idle"
    /\ \E path_fs \in PathParts, env \in PathEnvs :
          LET done == open_path(path_fs, env)
          IN /\ op' = "open_path"
             /\ args' = [path_fs |-> path_fs, env |-> env]
             /\ trace' = done.trace
             /\ playlist' = done.playlist
             /\ is' = done.is
             /\ is_r' = done.is_r
    /\ UNCHANGED <<soundcloudVars, registryVars, lifeVars, tried, supported>>

\* the caller takes the result; tried[] and the stream handle go out of scope
Return ==
    /\ op # "idle"
    /\ op' = "idle"
    /\ args' = <<>>
    /\ tried' = [i \in PluginIndex |-> FALSE]
    /\ trace' = <<>>
    /\ playlist' = NULL
    /\ supported' = FALSE
    /\ is' = NoStream
    /\ is_r' = NULL
    /\ UNCHANGED <<soundcloudVars, registryVars, lifeVars>>

\* ------------------------------------------- the SoundCloud track extractor

\* greatest number of objects in the array of a document
MaxTracks == 2

\* enum key
Duration == 0

Title == 1

Stream_URL == 2

Other == 3

key_str ==
    << <<"d", "u", "r", "a", "t", "i", "o", "n">>,
       <<"t", "i", "t", "l", "e">>,
       <<"s", "t", "r", "e", "a", "m", "_", "u", "r", "l">> >>

\* soundcloud_config.apikey, which soundcloud_init has set
apikey == <<"k">>

\* the literal "?client_id="
client_id == <<"?", "c", "l", "i", "e", "n", "t", "_", "i", "d", "=">>

\* the values that the members of struct parse_data without an initializer,
\* key and duration, may hold when the parser starts; every key outside the
\* enum takes the default branch of the switches as Other does
UninitKeys == {Duration, Title, Stream_URL, Other}

UninitDurations == {0, 7000}

\* the calls that the decoder makes for a document: yajl calls back on an
\* integer, a string, a map key, the start and the end of a map; it has no
\* callback for array brackets or for the other scalars
Ev(ev, str, int) == [ev |-> ev, str |-> str, int |-> int]

StartMap == Ev("start_map", <<>>, 0)

EndMap == Ev("end_map", <<>>, 0)

MapKey(stringval) == Ev("mapkey", stringval, 0)

String(stringval) == Ev("string", stringval, 0)

Integer(intval) == Ev("integer", <<>>, intval)

\* objects of the documents: {"duration":5000,"title":"A","stream_url":"u"}
FullTrack ==
    <<StartMap, MapKey(key_str[1]), Integer(5000), MapKey(key_str[2]), String(<<"A">>),
      MapKey(key_str[3]), String(<<"u">>), EndMap>>

\* {"title":"B","stream_url":"v","duration":1999}
FullTrack2 ==
    <<StartMap, MapKey(key_str[2]), String(<<"B">>), MapKey(key_str[3]), String(<<"v">>),
      MapKey(key_str[1]), Integer(1999), EndMap>>

\* {"stream_url":"w"}
BareTrack == <<StartMap, MapKey(key_str[3]), String(<<"w">>), EndMap>>

\* {"stream_url":"u","user":{"stream_url":"n"},"title":"A"}
NestedUrlTrack ==
    <<StartMap, MapKey(key_str[3]), String(<<"u">>),
      MapKey(<<"u", "s", "e", "r">>), StartMap, MapKey(key_str[3]), String(<<"n">>), EndMap,
      MapKey(key_str[2]), String(<<"A">>), EndMap>>

\* {"stream_url":"v","user":{"id":7},"title":"B"}
NestedPlainTrack ==
    <<StartMap, MapKey(key_str[3]), String(<<"v">>),
      MapKey(<<"u", "s", "e", "r">>), StartMap, MapKey(<<"i", "d">>), Integer(7), EndMap,
      MapKey(key_str[2]), String(<<"B">>), EndMap>>

\* {"titles":"X","stream_url":"v","":9000,"stream":"z"}
PrefixKeyTrack ==
    <<StartMap, MapKey(<<"t", "i", "t", "l", "e", "s">>), String(<<"X">>),
      MapKey(key_str[3]), String(<<"v">>), MapKey(<<>>), Integer(9000),
      MapKey(<<"s", "t", "r", "e", "a", "m">>), String(<<"z">>), EndMap>>

\* {"title":"C"}
NoUrlObject == <<StartMap, MapKey(key_str[2]), String(<<"C">>), EndMap>>

Objects ==
    {FullTrack, FullTrack2, BareTrack, NestedUrlTrack, NestedPlainTrack,
     PrefixKeyTrack, NoUrlObject}

\* a document is an array of objects, bare or as the "tracks" of an object
Docs == [wrapped : BOOLEAN, tracks : SeqsUpTo(Objects, MaxTracks)]

EmptyDoc == [wrapped |-> FALSE, tracks |-> <<>>]

RECURSIVE Flatten(_)
Flatten(seqs) == IF seqs = <<>> THEN <<>> ELSE Head(seqs) \o Flatten(Tail(seqs))

\* the calls of the decoder in their order
Events ==
    IF doc.wrapped
    THEN <<StartMap, MapKey(<<"t", "r", "a", "c", "k", "s">>)>> \o Flatten(doc.tracks) \o <<EndMap>>
    ELSE Flatten(doc.tracks)

\* struct parse_data before the parser is set up
NoData ==
    [key |-> Other, stream_url |-> NULL, duration |-> 0, title |-> NULL,
     got_url |-> 0, songs |-> <<>>]

\* no stream yet; closed_locked counts the calls of Close made while the
\* mutex was held
NoInput == [open |-> FALSE, opened |-> 0, closed |-> 0, closed_locked |-> 0]

\* the mutex as the caller hands it in, not held; unheld_unlocks counts the
\* calls of unlock made while it was not held
NoLock == [locked |-> FALSE, locks |-> 0, unlocks |-> 0, unheld_unlocks |-> 0]

\* mutex.lock()
Mutex_lock(m) == [m EXCEPT !.locked = TRUE, !.locks = @ + 1]

\* mutex.unlock()
Mutex_unlock(m) ==
    [m EXCEPT !.locked = FALSE, !.unlocks = @ + 1,
              !.unheld_unlocks = IF m.locked THEN @ ELSE @ + 1]

\* input_stream->Close() while the mutex is as m
input_stream_Close(s, m) ==
    [s EXCEPT !.open = FALSE, !.closed = @ + 1,
              !.closed_locked = IF m.locked THEN @ + 1 ELSE @]

\* the way out of the loop with the stream closed before the mutex is
\* released
parse_json_exit_CloseFirst(m, s) ==
    [mutex |-> Mutex_unlock(m), input_stream |-> input_stream_Close(s, m)]

\* the way out of the loop of soundcloud_parse_json: mutex.unlock(), then
\* input_stream->Close()
parse_json_exit(m, s) ==
    LET released == Mutex_unlock(m)
    IN [mutex |-> released, input_stream |-> input_stream_Close(s, released)]

on_integer(d, intval) ==
    IF d.key = Duration THEN [d EXCEPT !.duration = intval] ELSE d

on_string(d, stringval) ==
    IF d.key = Title THEN [d EXCEPT !.title = Ptr(stringval)]
    ELSE IF d.key = Stream_URL
    THEN [d EXCEPT !.stream_url = Ptr(stringval), !.got_url = 1]
    ELSE d

\* strncmp(s1, s2, n) == 0, compared from character i on; s1 has n
\* characters, s2 ends with a NUL after its last one
RECURSIVE strncmp_from(_, _, _, _)
strncmp_from(s1, s2, n, i) ==
    IF i > n THEN TRUE
    ELSE IF i > Len(s2) THEN FALSE
    ELSE IF s1[i] # s2[i] THEN FALSE
    ELSE strncmp_from(s1, s2, n, i + 1)

strncmp(s1, s2, n) == strncmp_from(s1, s2, n, 1)

\* the loop of handle_mapkey from key i on
RECURSIVE mapkey_from(_, _)
mapkey_from(i, stringval) ==
    IF i >= Other THEN Other
    ELSE IF strncmp(stringval, key_str[i + 1], Len(stringval)) THEN i
    ELSE mapkey_from(i + 1, stringval)

on_mapkey(d, stringval) == [d EXCEPT !.key = mapkey_from(0, stringval)]

on_start_map(d) == IF d.got_url > 0 THEN [d EXCEPT !.got_url = @ + 1] ELSE d

\* TagTime without the division by 1000
TagTime_Milliseconds(duration) == duration

\* the division of C, which rounds towards zero
TagTime(duration) ==
    IF duration >= 0 THEN duration \div 1000 ELSE -((-duration) \div 1000)

\* the song that handle_end_map makes of a finished track
NewSong(d) ==
    [uri |-> Deref(d.stream_url) \o client_id \o apikey,
     time |-> TagTime(d.duration),
     title |-> d.title]

on_end_map(d) ==
    IF d.got_url > 1 THEN [d EXCEPT !.got_url = @ - 1]
    ELSE IF d.got_url = 0 THEN d
    ELSE [d EXCEPT !.got_url = 0, !.songs = <<NewSong(d)>> \o @]

\* the next call of the decoder is ev: Read has returned bytes and yajl_parse
\* has come to the event
Decoding(ev) == pc = "read" /\ cursor <= Len(Events) /\ Events[cursor].ev = ev

\* the callback has returned 1 and the decoder goes on
Decoded(d) ==
    /\ data' = d
    /\ cursor' = cursor + 1
    /\ stat' = "yajl_status_ok"
    /\ UNCHANGED <<doc, pc, ret, provider, mutex, input_stream,
                   registryVars, lifeVars, callVars>>

handle_integer ==
    /\ Decoding("integer")
    /\ Decoded(on_integer(data, Events[cursor].int))

handle_string ==
    /\ Decoding("string")
    /\ Decoded(on_string(data, Events[cursor].str))

handle_mapkey ==
    /\ Decoding("mapkey")
    /\ Decoded(on_mapkey(data, Events[cursor].str))

handle_start_map ==
    /\ Decoding("start_map")
    /\ Decoded(on_start_map(data))

handle_end_map ==
    /\ Decoding("end_map")
    /\ Decoded(on_end_map(data))

\* std::forward_list::reverse left out
reverse_Omitted(songs) == songs

\* std::forward_list::reverse
RECURSIVE reverse(_)
reverse(songs) ==
    IF songs = <<>> THEN <<>> ELSE Append(reverse(Tail(songs)), Head(songs))

\* what soundcloud_open_uri returns after soundcloud_parse_json returned r
open_uri_result(r, songs) == IF r = -1 THEN NULL ELSE Ptr(reverse(songs))

\* the start of soundcloud_open_uri up to the loop of soundcloud_parse_json:
\* known tells whether the URI has the scheme and one of the forms of the
\* plugin, open_ok whether input_stream::Open yields a stream
soundcloud_open_uri ==
    /\ pc = "start"
    /\ \E known \in BOOLEAN, open_ok \in BOOLEAN,
          key \in UninitKeys, duration \in UninitDurations :
          IF ~known
          THEN /\ pc' = "returned"
               /\ provider' = NULL
               /\ UNCHANGED <<data, ret, mutex, input_stream>>
          ELSE /\ data' = [NoData EXCEPT !.key = key, !.duration = duration]
               /\ IF open_ok
                  THEN /\ input_stream' = [NoInput EXCEPT !.open = TRUE, !.opened = 1]
                       /\ mutex' = Mutex_lock(mutex)
                       /\ pc' = "read"
                       /\ UNCHANGED <<ret, provider>>
                  ELSE /\ ret' = -1
                       /\ provider' = open_uri_result(-1, <<>>)
                       /\ pc' = "returned"
                       /\ UNCHANGED <<mutex, input_stream>>
    /\ UNCHANGED <<doc, cursor, stat, registryVars, lifeVars, callVars>>

\* the end of soundcloud_parse_json and of soundcloud_open_uri after it
Finish(r) ==
    /\ mutex' = parse_json_exit(mutex, input_stream).mutex
    /\ input_stream' = parse_json_exit(mutex, input_stream).input_stream
    /\ ret' = r
    /\ provider' = open_uri_result(r, data.songs)
    /\ pc' = "returned"
    /\ UNCHANGED <<doc, cursor, data, registryVars, lifeVars, callVars>>

\* Read returns 0 at the end of the stream: yajl_complete_parse reports an
\* error when the document is not complete, and the loop ends either way
soundcloud_parse_json_eof ==
    /\ pc = "read"
    /\ stat' = IF cursor > Len(Events) THEN "yajl_status_ok" ELSE "yajl_status_error"
    /\ Finish(0)

\* Read returns 0 before the end of the stream
soundcloud_parse_json_read_error ==
    /\ pc = "read"
    /\ UNCHANGED stat
    /\ Finish(-1)

\* yajl_parse finds the bytes that Read returned malformed: break
soundcloud_parse_json_decode_error ==
    /\ pc = "read"
    /\ stat' = "yajl_status_error"
    /\ Finish(0)

\* ------------------------------------------------------- the specifications

InitWith(registries, configs) ==
    /\ playlist_plugins \in registries
    /\ config \in configs
    /\ playlist_plugins_enabled = [i \in PluginIndex |-> FALSE]
    /\ phase = "start"
    /\ init_calls = [i \in PluginIndex |-> <<>>]
    /\ finish_calls = [i \in PluginIndex |-> 0]
    /\ op = "idle"
    /\ args = <<>>
    /\ tried = [i \in PluginIndex |-> FALSE]
    /\ trace = <<>>
    /\ playlist = NULL
    /\ supported = FALSE
    /\ is = NoStream
    /\ is_r = NULL

\* the plugin before soundcloud_open_uri is called to fetch a document
SoundCloudInit(docs) ==
    /\ doc \in docs
    /\ pc = "start"
    /\ cursor = 1
    /\ data = NoData
    /\ stat = "none"
    /\ ret = 0
    /\ provider = NULL
    /\ mutex = NoLock
    /\ input_stream = NoInput

\* start-up and shut-down under every configuration
InitLife == InitWith({DefaultRegistry}, Configs) /\ SoundCloudInit({EmptyDoc})

NextLife == playlist_list_global_init \/ playlist_list_global_finish

SpecLife == InitLife /\ [][NextLife]_vars

\* the resolution over every registry, started without configuration blocks
Init == InitWith(Registries, {<<>>}) /\ SoundCloudInit({EmptyDoc})

Next ==
    \/ playlist_list_global_init
    \/ playlist_list_global_finish
    \/ playlist_list_open_uri
    \/ playlist_list_open_stream
    \/ playlist_suffix_supported
    \/ playlist_list_open_path
    \/ Return

Spec == Init /\ [][Next]_vars

\* the extraction of the tracks of every document
InitSoundCloud == InitWith({DefaultRegistry}, {<<>>}) /\ SoundCloudInit(Docs)

NextSoundCloud ==
    \/ soundcloud_open_uri
    \/ handle_integer
    \/ handle_string
    \/ handle_mapkey
    \/ handle_start_map
    \/ handle_end_map
    \/ soundcloud_parse_json_eof
    \/ soundcloud_parse_json_read_error
    \/ soundcloud_parse_json_decode_error

SpecSoundCloud == InitSoundCloud /\ [][NextSoundCloud]_vars

\* ------------------------------------------------------------- properties

\* what the properties say of a call, read off the registry

\* the enabled plugins whose scheme set holds the scheme of uri
SchemeOwners(uri) ==
    LET scheme == g_uri_parse_scheme(uri)
    IN IF scheme = NULL THEN {}
       ELSE {i \in PluginIndex :
                /\ playlist_plugins_enabled[i]
                /\ playlist_plugins[i].schemes # NULL
                /\ Deref(scheme) \in Deref(playlist_plugins[i].schemes)}

\* the enabled plugins whose suffix set holds the suffix of uri
SuffixOwners(uri) ==
    LET suffix == uri_get_suffix(uri)
    IN IF suffix = NULL THEN {}
       ELSE {i \in PluginIndex :
                /\ playlist_plugins_enabled[i]
                /\ playlist_plugins[i].suffixes # NULL
                /\ Deref(suffix) \in Deref(playlist_plugins[i].suffixes)}

\* the positions of the trace at which plugin i was asked to open in a pass
Attempts(i, pass) ==
    {k \in 1..Len(trace) :
        trace[k].ev \in {"open_uri", "open_stream"}
            /\ trace[k].plugin = i /\ trace[k].pass = pass}

\* the plugins asked to open during the call
Attempted ==
    {trace[k].plugin : k \in {j \in 1..Len(trace) : trace[j].ev \in {"open_uri", "open_stream"}}}

\* C1, as claimed: a URI whose scheme is in the scheme set of exactly one
\* enabled plugin makes playlist_list_open_uri select that plugin and attempt
\* no other plugin.
C1_SelectsSchemeOwner ==
    op = "open_uri" =>
        \A i \in PluginIndex :
            SchemeOwners(args.uri) = {i} =>
                playlist = Ptr(i) /\ Attempted \subseteq {i}

\* C1, amended: when the one enabled plugin whose scheme set holds the URI's
\* scheme can open URIs, it is the first plugin attempted, and by scheme; when
\* its open succeeds it is the plugin selected and no other plugin is attempted.
C1_SchemeOwnerFirst ==
    op = "open_uri" =>
        \A i \in PluginIndex :
            (SchemeOwners(args.uri) = {i} /\ playlist_plugins[i].open_uri) =>
                /\ Len(trace) >= 1
                /\ trace[1] = Event("open_uri", i, "scheme", 0)
                /\ i \in args.opens => (playlist = Ptr(i) /\ Attempted = {i})

\* C1's case: the scheme's one owner opened the URI although another enabled
\* URI-capable plugin lists the URI's suffix.
C1_Witness ==
    /\ op = "open_uri"
    /\ \E i, j \in PluginIndex :
          /\ i # j
          /\ SchemeOwners(args.uri) = {i}
          /\ j \in SuffixOwners(args.uri)
          /\ playlist_plugins[j].open_uri
          /\ j \in args.opens
          /\ playlist = Ptr(i)

\* C2, as claimed: a URI whose scheme is absent or in no enabled plugin's
\* scheme set and whose suffix is in the suffix set of exactly one enabled
\* plugin makes playlist_list_open_uri return the provider of that plugin.
C2_ReturnsSuffixOwner ==
    op = "open_uri" =>
        \A i \in PluginIndex :
            (SchemeOwners(args.uri) = {} /\ SuffixOwners(args.uri) = {i}) =>
                playlist = Ptr(i)

\* C2, amended: for such a URI no plugin is attempted by scheme; when the
\* suffix's one owner can open URIs it is the only plugin attempted, by suffix,
\* and its provider is returned exactly when its open succeeds; when it cannot
\* open URIs nothing is attempted and no provider is returned.
C2_FallsBackToSuffixOwner ==
    op = "open_uri" =>
        \A i \in PluginIndex :
            (SchemeOwners(args.uri) = {} /\ SuffixOwners(args.uri) = {i}) =>
                IF playlist_plugins[i].open_uri
                THEN /\ trace = <<Event("open_uri", i, "suffix", 0)>>
                     /\ playlist = IF i \in args.opens THEN Ptr(i) ELSE NULL
                ELSE trace = <<>> /\ playlist = NULL

\* C2's case: a URI with a scheme that no enabled plugin lists was opened by
\* the one owner of its suffix.
C2_Witness ==
    /\ op = "open_uri"
    /\ g_uri_parse_scheme(args.uri) # NULL
    /\ SchemeOwners(args.uri) = {}
    /\ \E i \in PluginIndex :
          SuffixOwners(args.uri) = {i} /\ playlist = Ptr(i)

\* the plugins that the scheme pass of the call asked and that failed
FailedByScheme == {i \in PluginIndex : Attempts(i, "scheme") # {} /\ i \notin args.opens}

\* C3: within one playlist_list_open_uri call a plugin that matched the scheme
\* and failed to open is marked tried and is not asked again by the suffix
\* pass, even when it lists the URI's suffix; a plugin that the scheme pass did
\* not ask and that lists the suffix is asked by the suffix pass, unless the
\* scheme pass or a plugin before it in the suffix pass opened the URI.
C3_TriedNotRetried ==
    op = "open_uri" =>
        /\ \A i \in FailedByScheme :
              /\ tried[i]
              /\ Cardinality(Attempts(i, "scheme")) = 1
              /\ Attempts(i, "suffix") = {}
        /\ \A j \in PluginIndex :
              ( /\ Attempts(j, "scheme") = {}
                /\ j \in SuffixOwners(args.uri)
                /\ playlist_plugins[j].open_uri
                /\ \A h \in PluginIndex : Attempts(h, "scheme") # {} => h \notin args.opens
                /\ \A h \in 1..(j - 1) : playlist # Ptr(h) ) =>
                    Cardinality(Attempts(j, "suffix")) = 1

\* C3's case: a plugin that lists both the scheme and the suffix failed by
\* scheme and was left out of the suffix pass, which asked another plugin.
C3_Witness ==
    /\ op = "open_uri"
    /\ \E i, j \in PluginIndex :
          /\ i \in FailedByScheme
          /\ i \in SuffixOwners(args.uri)
          /\ Attempts(i, "suffix") = {}
          /\ Attempts(j, "scheme") = {}
          /\ Attempts(j, "suffix") # {}

\* C4: in playlist_list_open_stream, in the MIME loop and in the suffix loop,
\* exactly one seek to offset 0 comes immediately before each attempt of a
\* plugin, and every attempt starts with the stream at offset 0, not where
\* the probe of the plugin before left it.
C4_RewoundBeforeEachAttempt ==
    op = "open_stream" =>
        \A k \in 1..Len(trace) :
            trace[k].ev = "open_stream" =>
                /\ k > 1
                /\ trace[k - 1] = Event("seek", 0, trace[k].pass, 0)
                /\ k > 2 => trace[k - 2].ev # "seek"
                /\ trace[k].pos = 0

\* the least element of a non-empty set of numbers
Least(S) == CHOOSE k \in S : \A j \in S : k <= j

\* the part of a MIME string before its first ';'
MimeBase(full) ==
    LET semicolons == {k \in 1..Len(full) : full[k] = ";"}
    IN IF semicolons = {} THEN full ELSE SubSeq(full, 1, Least(semicolons) - 1)

\* the enabled stream-capable plugins whose MIME set holds the MIME type of
\* the stream, its parameters left out
MimeOwners(mime) ==
    IF mime = NULL THEN {}
    ELSE {i \in PluginIndex :
             /\ playlist_plugins_enabled[i]
             /\ playlist_plugins[i].open_stream
             /\ playlist_plugins[i].mime_types # NULL
             /\ MimeBase(Deref(mime)) \in Deref(playlist_plugins[i].mime_types)}

\* the enabled stream-capable plugins whose suffix set holds the suffix of uri
StreamSuffixOwners(uri) ==
    IF uri = NULL THEN {}
    ELSE {i \in SuffixOwners(Deref(uri)) : playlist_plugins[i].open_stream}

\* C5, as claimed: when the stream's MIME type maps to one enabled
\* stream-capable plugin and the URI's suffix to a different one,
\* playlist_list_open_stream chooses the MIME-mapped plugin, and a successful
\* MIME match leaves no probe to the suffix pass.
C5_MimeOwnerChosen ==
    op = "open_stream" =>
        \A a, b \in PluginIndex :
            (a # b /\ MimeOwners(args.mime) = {a} /\ StreamSuffixOwners(args.uri) = {b}) =>
                /\ playlist = Ptr(a)
                /\ Attempts(a, "suffix") = {} /\ Attempts(b, "suffix") = {}

\* C5, amended: in that case the MIME-mapped plugin is probed first, by MIME;
\* when its open succeeds it is the plugin chosen and the suffix pass probes
\* nothing; when its open fails the suffix-mapped plugin is probed by suffix
\* and chosen exactly when its open succeeds.
C5_MimeBeforeSuffix ==
    op = "open_stream" =>
        \A a, b \in PluginIndex :
            (a # b /\ MimeOwners(args.mime) = {a} /\ StreamSuffixOwners(args.uri) = {b}) =>
                /\ Len(trace) >= 2
                /\ trace[2] = Event("open_stream", a, "mime", 0)
                /\ IF a \in args.env.opens
                   THEN /\ playlist = Ptr(a)
                        /\ Attempted = {a}
                        /\ \A k \in 1..Len(trace) : trace[k].pass = "mime"
                   ELSE /\ Cardinality(Attempts(b, "suffix")) = 1
                        /\ playlist = IF b \in args.env.opens THEN Ptr(b) ELSE NULL

\* C5's case: the MIME type and the suffix map to two different plugins that
\* both can open the stream, and the MIME-mapped one, later in the table, is
\* chosen.
C5_Witness ==
    /\ op = "open_stream"
    /\ \E a, b \in PluginIndex :
          /\ b < a
          /\ MimeOwners(args.mime) = {a}
          /\ StreamSuffixOwners(args.uri) = {b}
          /\ args.env.opens = {a, b}
          /\ playlist = Ptr(a)

\* C6: playlist_list_open_stream matches a MIME string by the part before
\* its first ';' alone: the MIME pass probes only plugins that list that part
\* and probes the first such plugin first; a MIME string that begins with ';'
\* has no MIME probe at all, and the suffix of the URI is still matched.
C6_MimeParameterStripped ==
    (op = "open_stream" /\ args.mime # NULL) =>
        /\ \A i \in PluginIndex : Attempts(i, "mime") # {} => i \in MimeOwners(args.mime)
        /\ MimeOwners(args.mime) # {} =>
              /\ Len(trace) >= 2
              /\ trace[2] = Event("open_stream", Least(MimeOwners(args.mime)), "mime", 0)
        /\ Deref(args.mime)[1] = ";" =>
              /\ \A k \in 1..Len(trace) : trace[k].pass # "mime"
              /\ StreamSuffixOwners(args.uri) # {} =>
                    /\ Len(trace) >= 2
                    /\ trace[2] = Event("open_stream", Least(StreamSuffixOwners(args.uri)),
                                        "suffix", 0)

\* C6's case: a stream whose MIME type carries a parameter was opened by a
\* plugin that lists the type without it.
C6_Witness ==
    /\ op = "open_stream"
    /\ args.mime # NULL
    /\ Deref(args.mime) # MimeBase(Deref(args.mime))
    /\ \E i \in PluginIndex : Attempts(i, "mime") # {} /\ playlist = Ptr(i)

\* the plugins that list a suffix, enabled or not
Listing(suffix) ==
    {i \in PluginIndex :
        playlist_plugins[i].suffixes # NULL /\ suffix \in Deref(playlist_plugins[i].suffixes)}

\* C7: playlist_suffix_supported returns true if and only if some plugin
\* whose enabled flag is true lists exactly that suffix; a disabled plugin or
\* one without a suffix set never makes it true.
C7_SupportedIffEnabledLists ==
    op = "suffix_supported" =>
        (supported <=> \E i \in Listing(args.suffix) : playlist_plugins_enabled[i])

\* C7's case: the suffix is supported by an enabled plugin that stands in the
\* table after a disabled plugin listing it too.
C7_Witness ==
    /\ op = "suffix_supported"
    /\ supported
    /\ \E i, j \in Listing(args.suffix) :
          i < j /\ ~playlist_plugins_enabled[i] /\ playlist_plugins_enabled[j]

\* C8: no resolution call probes or counts a plugin whose enabled flag is
\* false, a plugin is asked to open a URI only if it has open_uri and to open
\* a stream only if it has open_stream, and a resolution call leaves the
\* enabled flags as they were.
C8_OnlyEnabledCapable ==
    /\ [](\A k \in 1..Len(trace) :
            /\ trace[k].ev \in {"open_uri", "open_stream", "supported"} =>
                  playlist_plugins_enabled[trace[k].plugin]
            /\ trace[k].ev = "open_uri" => playlist_plugins[trace[k].plugin].open_uri
            /\ trace[k].ev = "open_stream" => playlist_plugins[trace[k].plugin].open_stream)
    /\ [][op' # "idle" => playlist_plugins_enabled' = playlist_plugins_enabled]_vars

\* C8's case: playlist_list_open_path counted and probed an enabled plugin
\* that stands after a disabled plugin with the same suffix and open_stream.
C8_Witness ==
    /\ op = "open_path"
    /\ Len(trace) >= 1
    /\ \E i, j \in PluginIndex :
          /\ i < j
          /\ ~playlist_plugins_enabled[i]
          /\ playlist_plugins[i].open_stream
          /\ playlist_plugins[i].suffixes = playlist_plugins[j].suffixes
          /\ trace[1] = Event("supported", j, "suffix", 0)
          /\ Attempts(j, "suffix") # {}

\* C9: after playlist_list_global_init and playlist_list_global_finish every
\* plugin whose enabled flag is true after the init has received exactly one
\* finish call, and every plugin whose init returned false or was skipped has
\* received none; before the finish no plugin has received any.
C9_FinishPairsInit ==
    \A i \in PluginIndex :
        /\ finish_calls[i] =
              IF phase = "finished" /\ playlist_plugins_enabled[i] THEN 1 ELSE 0
        /\ (init_calls[i] = <<>> \/ ~init_calls[i][Len(init_calls[i])].result) =>
              finish_calls[i] = 0

\* C9's case: after the finish one plugin has its one finish call, a plugin
\* whose init returned false has none.
C9_Witness ==
    /\ phase = "finished"
    /\ \E i, j \in PluginIndex :
          /\ playlist_plugins_enabled[i] /\ finish_calls[i] = 1
          /\ init_calls[j] # <<>> /\ ~init_calls[j][1].result /\ finish_calls[j] = 0

\* the blocks of the configuration that name plugin i
BlocksNamed(i) == {k \in 1..Len(config) : config[k].name = Ptr(PluginName(i))}

\* C10: when playlist_list_global_init returns, a plugin whose (first)
\* configuration block sets enabled to false has had no init call and its
\* enabled flag is false; every other plugin has had exactly one init call,
\* with its block or with the empty block if it has none, and its enabled flag
\* is what that call returned.
C10_InitUnlessDisabled ==
    phase \in {"running", "finished"} =>
        \A i \in PluginIndex :
            IF BlocksNamed(i) # {} /\ config[Least(BlocksNamed(i))].enabled = Ptr(FALSE)
            THEN init_calls[i] = <<>> /\ ~playlist_plugins_enabled[i]
            ELSE init_calls[i] =
                    <<[param |-> IF BlocksNamed(i) = {} THEN NULL
                                 ELSE Ptr(Least(BlocksNamed(i))),
                       result |-> playlist_plugins_enabled[i]]>>

\* C10's case: one plugin is disabled in the configuration and was skipped,
\* another has a block that does not set enabled, and its init ran with it.
C10_Witness ==
    /\ phase = "running"
    /\ \E i, j \in PluginIndex :
          /\ BlocksNamed(i) # {}
          /\ config[Least(BlocksNamed(i))].enabled = Ptr(FALSE)
          /\ init_calls[i] = <<>>
          /\ BlocksNamed(j) # {}
          /\ config[Least(BlocksNamed(j))].enabled = NULL
          /\ Len(init_calls[j]) = 1
          /\ playlist_plugins_enabled[j]

\* the positions of the configuration blocks that lack their name
Nameless == {k \in 1..Len(config) : config[k].name = NULL}

\* C11: whenever the configuration holds a playlist_plugin block without a
\* name, playlist_list_global_init ends in the fatal configuration error,
\* wherever that block stands among the named blocks.
C11_NamelessBlockFatal ==
    (phase # "start" /\ Nameless # {}) => phase = "fatal"

\* C12: every stream that playlist_list_open_path opens is either handed to
\* the caller through is_r together with a provider and left open, or closed
\* exactly once before the call returns no provider; it is never both returned
\* and closed and never left open on failure.  When the path has no suffix or
\* no enabled plugin lists its suffix, the call returns no provider and opens
\* no stream.
C12_StreamReturnedOrClosed ==
    op = "open_path" =>
        /\ is.opened <= 1
        /\ IF playlist # NULL
           THEN is.opened = 1 /\ is.open /\ is.closed = 0 /\ is_r = Ptr("is")
           ELSE is_r = NULL /\ ~is.open /\ is.closed = is.opened
        /\ SuffixOwners(args.path_fs) = {} =>
              playlist = NULL /\ is.opened = 0

\* C12's case: the file was opened, a plugin probed the stream and failed, and
\* the stream was closed once before the call returned no provider.
C12_Witness ==
    /\ op = "open_path"
    /\ Attempted # {}
    /\ playlist = NULL
    /\ is.opened = 1 /\ is.closed = 1 /\ ~is.open

\* what the properties say of a document, read off its objects

\* the document was read to its end and decoded without an error
Extracted == pc = "returned" /\ ret = 0 /\ stat = "yajl_status_ok"

\* the records that soundcloud_open_uri returned
Records == IF provider = NULL THEN <<>> ELSE Deref(provider)

\* the URL that a record is to carry for the stream_url u
Playable(u) == u \o <<"?", "c", "l", "i", "e", "n", "t", "_", "i", "d", "=">> \o <<"k">>

\* the track objects with duration d, title t and stream_url u, their members
\* in any order
TrackOf(d, t, u) ==
    LET member == << <<MapKey(<<"d", "u", "r", "a", "t", "i", "o", "n">>), Integer(d)>>,
                     <<MapKey(<<"t", "i", "t", "l", "e">>), String(t)>>,
                     <<MapKey(<<"s", "t", "r", "e", "a", "m", "_", "u", "r", "l">>), String(u)>> >>
    IN {<<StartMap>> \o member[p[1]] \o member[p[2]] \o member[p[3]] \o <<EndMap>> :
            p \in Permutations(1..3)}

\* C13: the extraction of a single track object with duration d
\* (milliseconds), title t and stream_url u yields exactly one record, whose
\* duration in seconds is d / 1000 by integer division, whose title is t and
\* whose URL is u followed by "?client_id=" and the key.
C13_SingleTrackRecord ==
    Extracted =>
        \A d \in {5000, 1999}, t \in {<<"A">>, <<"B">>}, u \in {<<"u">>, <<"v">>} :
            (\E o \in TrackOf(d, t, u) : doc.tracks = <<o>>) =>
                Records = <<[uri |-> Playable(u), time |-> d \div 1000, title |-> Ptr(t)]>>

\* C13's case: the one track of the document has duration 1999, which is not
\* a multiple of 1000, and its record has 1 second, the title and the URL.
C13_Witness ==
    /\ Extracted
    /\ doc.tracks \in {<<o>> : o \in TrackOf(1999, <<"B">>, <<"v">>)}
    /\ Records = <<[uri |-> Playable(<<"v">>), time |-> 1, title |-> Ptr(<<"B">>)]>>

\* the nesting depth of the k-th event of object o: 1 for its own members
ObjDepth(o, k) ==
    Cardinality({j \in 1..(k - 1) : o[j].ev = "start_map"})
        - Cardinality({j \in 1..(k - 1) : o[j].ev = "end_map"})

\* key is the beginning of name, or all of it
IsPrefix(key, name) == Len(key) <= Len(name) /\ SubSeq(name, 1, Len(key)) = key

FieldNames ==
    {<<"d", "u", "r", "a", "t", "i", "o", "n">>, <<"t", "i", "t", "l", "e">>,
     <<"s", "t", "r", "e", "a", "m", "_", "u", "r", "l">>}

\* the positions in o of the members of o itself that are named name
RootMembers(o, name) ==
    {k \in 1..Len(o) : o[k].ev = "mapkey" /\ o[k].str = name /\ ObjDepth(o, k) = 1}

\* a track object: it has one stream_url, as a member of its own, and no
\* member at any depth whose key is the beginning of a field name without
\* being the name of a field of the object itself
PlainTrack(o) ==
    /\ Cardinality(RootMembers(o, <<"s", "t", "r", "e", "a", "m", "_", "u", "r", "l">>)) = 1
    /\ \A k \in 1..Len(o) :
          (o[k].ev = "mapkey" /\ \E name \in FieldNames : IsPrefix(o[k].str, name)) =>
              o[k].str \in FieldNames /\ ObjDepth(o, k) = 1

\* the stream_url of a track object
UrlOf(o) ==
    o[(CHOOSE k \in RootMembers(o, <<"s", "t", "r", "e", "a", "m", "_", "u", "r", "l">>) : TRUE) + 1].str

\* the position in Events of the end of map of the k-th object of the array
EndOf(k) ==
    (IF doc.wrapped THEN 2 ELSE 0) + Len(Flatten(SubSeq(doc.tracks, 1, k)))

\* the number of objects of the array that the decoder has left
Closed == Cardinality({k \in 1..Len(doc.tracks) : EndOf(k) < cursor})

\* C14: the extraction of an array of N track objects yields exactly N
\* records in the order of the document, the record of the first object
\* first: while the document is decoded the list holds the records of the
\* objects closed so far, the last closed first, and it is reversed once at
\* the end of the document.
C14_RecordsInSourceOrder ==
    (\A k \in 1..Len(doc.tracks) : PlainTrack(doc.tracks[k])) =>
        /\ pc = "read" =>
              /\ Len(data.songs) = Closed
              /\ \A k \in 1..Closed :
                    data.songs[Closed + 1 - k].uri = Playable(UrlOf(doc.tracks[k]))
        /\ Extracted =>
              /\ Len(Records) = Len(doc.tracks)
              /\ \A k \in 1..Len(doc.tracks) :
                    Records[k].uri = Playable(UrlOf(doc.tracks[k]))

\* C14's case: an array of as many track objects as a document holds, the
\* first two with different URLs, was extracted to its end.
C14_Witness ==
    /\ Extracted
    /\ Len(doc.tracks) = MaxTracks
    /\ \A k \in 1..Len(doc.tracks) : PlainTrack(doc.tracks[k])
    /\ UrlOf(doc.tracks[1]) # UrlOf(doc.tracks[2])
    /\ Len(Records) = MaxTracks
    /\ Records[1].uri = Playable(UrlOf(doc.tracks[1]))

\* C15: a stream_url inside a sub-object nested deeper than the root of the
\* record does not close the record early: a record is finalized only by the
\* end of map that matches the start of map of its track object, so the list
\* never holds more records than the array has objects that are closed.
C15_ClosedByRootEnd ==
    pc = "read" => Len(data.songs) <= Closed

\* C16: a decode error at any point of soundcloud_parse_json makes
\* soundcloud_open_uri return no provider; the records accumulated before the
\* error are not returned.
C16_DecodeErrorNoResult ==
    (pc = "returned" /\ stat = "yajl_status_error") => provider = NULL

\* the objects of the array that have a member of their own named name
Having(name) ==
    {k \in 1..Len(doc.tracks) : RootMembers(doc.tracks[k], name) # {}}

\* the document is an array of track objects
AllPlain == \A k \in 1..Len(doc.tracks) : PlainTrack(doc.tracks[k])

\* C17: when a record closes (end of map at got_url 1) the scratch title and
\* stream URL are cleared along with got_url, so that a later track object
\* without a title of its own gets a record without a title.
C17_ScratchClearedAtClose ==
    /\ [][Len(data'.songs) > Len(data.songs) =>
            data'.title = NULL /\ data'.stream_url = NULL /\ data'.got_url = 0]_vars
    /\ []((Extracted /\ AllPlain) =>
            \A k \in 1..Len(doc.tracks) :
                k \notin Having(<<"t", "i", "t", "l", "e">>) => Records[k].title = NULL)

\* C18: the record of a track object without a duration member has duration
\* 0, not an arbitrary initial value and not the duration of an object
\* decoded before.
C18_AbsentDurationIsZero ==
    (Extracted /\ AllPlain) =>
        \A k \in 1..Len(doc.tracks) :
            k \notin Having(<<"d", "u", "r", "a", "t", "i", "o", "n">>) => Records[k].time = 0

\* the field that a key names, Other when it is not exactly a field name
ExactKey(key) ==
    IF key = <<"d", "u", "r", "a", "t", "i", "o", "n">> THEN 0
    ELSE IF key = <<"t", "i", "t", "l", "e">> THEN 1
    ELSE IF key = <<"s", "t", "r", "e", "a", "m", "_", "u", "r", "l">> THEN 2
    ELSE 3

\* C19: handle_mapkey classifies a key as duration, title or stream_url only
\* when the key is exactly that name; every other key, the empty key and the
\* beginnings of the field names among them, is classified as other.
C19_ExactKeyOnly ==
    (pc = "read" /\ cursor > 1 /\ Events[cursor - 1].ev = "mapkey") =>
        data.key = ExactKey(Events[cursor - 1].str)

\* C20, as claimed: within one playlist_list_open_stream call no plugin's
\* open_stream is attempted more than once; a plugin probed by MIME type is
\* not probed again by suffix.
C20_NeverProbedTwice ==
    op = "open_stream" =>
        \A i \in PluginIndex :
            Cardinality(Attempts(i, "mime") \cup Attempts(i, "suffix")) <= 1

\* C20, amended: within one playlist_list_open_stream call a plugin is
\* probed at most once by MIME type and at most once by suffix; a plugin that
\* was probed by MIME type and failed is probed again by suffix when it lists
\* the suffix of the URI, unless a plugin before it in the suffix pass opened
\* the stream.
C20_ProbedOncePerPass ==
    op = "open_stream" =>
        \A i \in PluginIndex :
            /\ Cardinality(Attempts(i, "mime")) <= 1
            /\ Cardinality(Attempts(i, "suffix")) <= 1
            /\ ( /\ i \in MimeOwners(args.mime) \cap StreamSuffixOwners(args.uri)
                 /\ MimeOwners(args.mime) \cap args.env.opens = {}
                 /\ \A h \in 1..(i - 1) :
                        h \notin StreamSuffixOwners(args.uri) \cap args.env.opens ) =>
                    /\ Cardinality(Attempts(i, "mime")) = 1
                    /\ Cardinality(Attempts(i, "suffix")) = 1

\* C20's case: a plugin that lists both the MIME type of the stream and the
\* suffix of the URI failed by MIME type and was probed again by suffix.
C20_Witness ==
    /\ op = "open_stream"
    /\ \E i \in PluginIndex :
          /\ i \notin args.env.opens
          /\ Attempts(i, "mime") # {}
          /\ Attempts(i, "suffix") # {}

\* C21: on every path through soundcloud_parse_json (the open fails, a read
\* fails before the end of the stream, the decoder reports an error, the
\* stream ends) the mutex is on return as it was on entry, not held: every
\* lock is matched by exactly one unlock and unlock is never called on the
\* mutex while it is not held; a stream that was opened is closed exactly
\* once, and after the mutex is released.
C21_LockAndStreamPaired ==
    /\ mutex.unheld_unlocks = 0
    /\ input_stream.closed_locked = 0
    /\ input_stream.opened <= 1
    /\ pc = "read" =>
          /\ mutex.locked /\ mutex.locks = 1 /\ mutex.unlocks = 0
          /\ input_stream.open /\ input_stream.opened = 1 /\ input_stream.closed = 0
    /\ pc = "returned" =>
          /\ ~mutex.locked
          /\ mutex.locks = mutex.unlocks
          /\ mutex.locks = input_stream.opened
          /\ ~input_stream.open
          /\ input_stream.closed = input_stream.opened

\* C21's case: the stream was opened, the mutex taken, and a read failed
\* before the end of the stream after part of the document was decoded; the
\* mutex was released once and the stream then closed once.
C21_Witness ==
    /\ pc = "returned"
    /\ ret = -1
    /\ cursor > 1
    /\ mutex = [locked |-> FALSE, locks |-> 1, unlocks |-> 1, unheld_unlocks |-> 0]
    /\ input_stream = [open |-> FALSE, opened |-> 1, closed |-> 1, closed_locked |-> 0]

====
